---- MODULE Spec2Model ----
(***************************************************************************)
(* Model of simulator/send-hl7.py: the HL7Simulator class (message         *)
(* builder, MLLP sender, scenario runner) and main().                      *)
(*                                                                         *)
(* Text is modelled as sequences of Unicode code points and bytes as       *)
(* sequences of integers 0..255, so that the framing bytes 0x0B, 0x1C and  *)
(* 0x0D, str.split, the f-string formats and the UTF-8 encoding are        *)
(* computed rather than assumed.  The wall clock (datetime.now()) is a     *)
(* naive local time counted in seconds since 1970-01-01 00:00:00.          *)
(***************************************************************************)
EXTENDS Integers, Sequences, FiniteSets

VARIABLES
    message_count,  \* HL7Simulator.message_count
    msg,            \* bytes create_hl7_message returned, until sent or dropped
    raised,         \* exception that escaped the latest public call ("none" if it returned)
    arg_name,       \* patient_name argument of the call that built msg
    arg_mrn,        \* mrn argument of the call that built msg
    arg_modality,   \* modality argument of the call that built msg
    t_created,      \* first datetime.now() reading of the call that built msg
    calls,          \* number of create_hl7_message calls made so far
    issued,         \* control IDs of the messages returned so far
    produced,       \* number of messages returned so far
    pc,             \* position of the single thread of control
    outer,          \* where control goes when the outermost call returns
    caller,         \* who called send_message: "direct" or "sta" (send_test_appointment)
    scenario,       \* scenario being run by run_demo_scenario, or "none"
    i,              \* loop variable of the scenario loop
    attempts,       \* send_message calls made by the running scenario
    sock,           \* how far the latest send_message call got with its socket
    open_socks,     \* sockets created by send_message and not closed
    peak_open,      \* most sockets open at once during the latest send_message call
    unsent,         \* suffix of the message its socket write did not accept
    result          \* pair the latest send_message call returned

vars ==
    << message_count, msg, raised, arg_name, arg_mrn, arg_modality, t_created,
       calls, issued, produced, pc, outer, caller, scenario, i, attempts, sock,
       open_socks, peak_open, unsent, result >>

(***************************************************************************)
(* Bounds of the model.                                                    *)
(***************************************************************************)
\* create_hl7_message calls a client makes on one simulator object.
MaxCalls == 2

\* Seconds the wall clock may advance between the two datetime.now() reads.
MaxAdvance == 1

\* Bytes of the message a single socket.send may leave unwritten.
MaxUnsent == 2

\* Descriptors the process may hold open before socket.socket() fails (EMFILE).
MaxOpen == 2

(***************************************************************************)
(* Characters and bytes.                                                   *)
(***************************************************************************)
SP == 32
CR == 13
VT == 11
FS == 28
PIPE == 124
CARET == 94
ZERO == 48

NONE == << >>   \* None and "" alike: every test of them in the code is `not x`

(***************************************************************************)
(* String literals of the source, as code points.                          *)
(***************************************************************************)
\* "MSH|^~\\&|RIS|MEMORIAL|RADSCHED|RAD|"
MSH_HEAD ==
    << 77, 83, 72, 124, 94, 126, 92, 38, 124, 82, 73, 83, 124, 77, 69, 77, 79, 82, 73, 65, 76, 124, 82, 65, 68, 83, 67, 72, 69, 68, 124, 82, 65, 68, 124 >>

\* "||SIU^S12|"
MSH_MID ==
    << 124, 124, 83, 73, 85, 94, 83, 49, 50, 124 >>

\* "|P|2.5"
MSH_TAIL ==
    << 124, 80, 124, 50, 46, 53 >>

\* "SCH||"
SCH_HEAD ==
    << 83, 67, 72, 124, 124 >>

\* "|||||||30|MIN|^^30^"
SCH_MID ==
    << 124, 124, 124, 124, 124, 124, 124, 51, 48, 124, 77, 73, 78, 124, 94, 94, 51, 48, 94 >>

\* "^^R||||||||||||||SCHEDULED"
SCH_TAIL ==
    << 94, 94, 82, 124, 124, 124, 124, 124, 124, 124, 124, 124, 124, 124, 124, 124, 124, 83, 67, 72, 69, 68, 85, 76, 69, 68 >>

\* "PID|1||"
PID_HEAD ==
    << 80, 73, 68, 124, 49, 124, 124 >>

\* "||"
PID_MID ==
    << 124, 124 >>

\* "||19800101|M|||123 Main St^^Boston^MA^02101||617-555-0123"
PID_TAIL ==
    << 124, 124, 49, 57, 56, 48, 48, 49, 48, 49, 124, 77, 124, 124, 124, 49, 50, 51, 32, 77, 97, 105, 110, 32, 83, 116, 94, 94, 66, 111, 115, 116, 111, 110, 94, 77, 65, 94, 48, 50, 49, 48, 49, 124, 124, 54, 49, 55, 45, 53, 53, 53, 45, 48, 49, 50, 51 >>

\* "RGS|1|A"
RGS_SEG ==
    << 82, 71, 83, 124, 49, 124, 65 >>

\* "AIS|1|A|"
AIS_HEAD ==
    << 65, 73, 83, 124, 49, 124, 65, 124 >>

\* "AIP|1|A|RADIOLOGIST^DOE^JOHN^MD|"
AIP_HEAD ==
    << 65, 73, 80, 124, 49, 124, 65, 124, 82, 65, 68, 73, 79, 76, 79, 71, 73, 83, 84, 94, 68, 79, 69, 94, 74, 79, 72, 78, 94, 77, 68, 124 >>

\* "MRI001^MRI BRAIN W/O CONTRAST"
MRI_CODE ==
    << 77, 82, 73, 48, 48, 49, 94, 77, 82, 73, 32, 66, 82, 65, 73, 78, 32, 87, 47, 79, 32, 67, 79, 78, 84, 82, 65, 83, 84 >>

\* "CT002^CT CHEST W CONTRAST"
CT_CODE ==
    << 67, 84, 48, 48, 50, 94, 67, 84, 32, 67, 72, 69, 83, 84, 32, 87, 32, 67, 79, 78, 84, 82, 65, 83, 84 >>

\* "XR003^CHEST XRAY 2 VIEWS"
XRAY_CODE ==
    << 88, 82, 48, 48, 51, 94, 67, 72, 69, 83, 84, 32, 88, 82, 65, 89, 32, 50, 32, 86, 73, 69, 87, 83 >>

\* "US004^ABDOMINAL ULTRASOUND"
US_CODE ==
    << 85, 83, 48, 48, 52, 94, 65, 66, 68, 79, 77, 73, 78, 65, 76, 32, 85, 76, 84, 82, 65, 83, 79, 85, 78, 68 >>

\* "MRI"
K_MRI ==
    << 77, 82, 73 >>

\* "CT"
K_CT ==
    << 67, 84 >>

\* "XRAY"
K_XRAY ==
    << 88, 82, 65, 89 >>

\* "US"
K_US ==
    << 85, 83 >>

\* "MRN"
MRN_PREFIX ==
    << 77, 82, 78 >>

\* "MSG"
MSG_PREFIX ==
    << 77, 83, 71 >>

\* "Test"
TEST_NAME ==
    << 84, 101, 115, 116 >>

\* "John Doe"
JOHN_DOE ==
    << 74, 111, 104, 110, 32, 68, 111, 101 >>

\* "Jane Smith"
JANE_SMITH ==
    << 74, 97, 110, 101, 32, 83, 109, 105, 116, 104 >>

\* "Robert Johnson"
ROBERT_JOHNSON ==
    << 82, 111, 98, 101, 114, 116, 32, 74, 111, 104, 110, 115, 111, 110 >>

\* "Mary Williams"
MARY_WILLIAMS ==
    << 77, 97, 114, 121, 32, 87, 105, 108, 108, 105, 97, 109, 115 >>

\* "David Brown"
DAVID_BROWN ==
    << 68, 97, 118, 105, 100, 32, 66, 114, 111, 119, 110 >>

(***************************************************************************)
(* Python's string operations, computed on code-point sequences.           *)
(***************************************************************************)
\* ' ' in patient_name
Contains(s, c) == \E k \in 1..Len(s) : s[k] = c

RECURSIVE Split(_, _)
\* s.split(sep) for a one-character separator: every occurrence splits
Split(s, sep) ==
    LET at == {k \in 1..Len(s) : s[k] = sep}
    IN  IF at = {} THEN << s >>
        ELSE LET k == CHOOSE k \in at : \A j \in at : k <= j
             IN  << SubSeq(s, 1, k - 1) >> \o Split(SubSeq(s, k + 1, Len(s)), sep)

RECURSIVE Join(_, _)
\* sep.join(parts)
Join(parts, sep) ==
    IF parts = << >> THEN << >>
    ELSE IF Len(parts) = 1 THEN parts[1]
    ELSE parts[1] \o << sep >> \o Join(Tail(parts), sep)

RECURSIVE Digits(_)
\* str(n) for n >= 0
Digits(n) ==
    IF n < 10 THEN << ZERO + n >>
    ELSE Digits(n \div 10) \o << ZERO + (n % 10) >>

RECURSIVE ZeroPad(_, _)
\* the 0-flag of a format spec: pad on the left to at least w characters
ZeroPad(s, w) == IF Len(s) >= w THEN s ELSE ZeroPad(<< ZERO >> \o s, w)

\* f"{n:06d}"
Format06d(n) == ZeroPad(Digits(n), 6)

\* date of the day number z0 (days since 1970-01-01), proleptic Gregorian
CivilFromDays(z0) ==
    LET z == z0 + 719468
        era == z \div 146097
        doe == z - era * 146097
        yoe == (doe - doe \div 1460 + doe \div 36524 - doe \div 146096) \div 365
        doy == doe - (365 * yoe + yoe \div 4 - yoe \div 100)
        mp == (5 * doy + 2) \div 153
        d == doy - (153 * mp + 2) \div 5 + 1
        m == IF mp < 10 THEN mp + 3 ELSE mp - 9
        y == yoe + era * 400 + (IF m <= 2 THEN 1 ELSE 0)
    IN  [year |-> y, month |-> m, day |-> d]

\* t.strftime("%Y%m%d%H%M")
StrftimeMinute(t) ==
    LET c == CivilFromDays(t \div 86400)
        s == t % 86400
    IN  ZeroPad(Digits(c.year), 4) \o ZeroPad(Digits(c.month), 2)
            \o ZeroPad(Digits(c.day), 2) \o ZeroPad(Digits(s \div 3600), 2)
            \o ZeroPad(Digits((s % 3600) \div 60), 2)

\* t.strftime("%Y%m%d%H%M%S")
StrftimeSecond(t) == StrftimeMinute(t) \o ZeroPad(Digits(t % 60), 2)

RECURSIVE Utf8Encode(_)
\* s.encode('utf-8'), for code points below 0x800: a code point below 0x80
\* is its own byte, so an ASCII run encodes to itself; any other becomes
\* two bytes; order is kept
Utf8Encode(s) ==
    IF \A k \in 1..Len(s) : s[k] < 128 THEN s
    ELSE IF Len(s) = 1
         THEN << 192 + (s[1] \div 64), 128 + (s[1] % 64) >>
    ELSE LET h == Len(s) \div 2
         IN  Utf8Encode(SubSeq(s, 1, h)) \o Utf8Encode(SubSeq(s, h + 1, Len(s)))

RECURSIVE Utf8DecodeIgnore(_)
\* b.decode('utf-8', errors='ignore'), for sequences of up to two bytes:
\* a byte that starts no valid sequence is dropped
Utf8DecodeIgnore(b) ==
    IF b = << >> THEN << >>
    ELSE LET c == Head(b)
         IN  IF c < 128 THEN << c >> \o Utf8DecodeIgnore(Tail(b))
             ELSE IF /\ c >= 194 /\ c < 224 /\ Len(b) >= 2
                     /\ b[2] >= 128 /\ b[2] < 192
                  THEN << (c - 192) * 64 + (b[2] - 128) >>
                           \o Utf8DecodeIgnore(Tail(Tail(b)))
             ELSE Utf8DecodeIgnore(Tail(b))

(***************************************************************************)
(* create_hl7_message.                                                     *)
(***************************************************************************)
\* timedelta(hours=2)
APT_HOURS == 2

\* the increment forgotten
NextCountForgotten(count) == count

\* self.message_count += 1
NextCount(count) == count + 1

\* the study_codes dictionary
study_codes ==
    [k \in {K_MRI, K_CT, K_XRAY, K_US} |->
        IF k = K_MRI THEN MRI_CODE
        ELSE IF k = K_CT THEN CT_CODE
        ELSE IF k = K_XRAY THEN XRAY_CODE
        ELSE US_CODE]

\* study_codes.get(modality, ""): no default entry
StudyCodeNoDefault(modality) ==
    IF modality \in DOMAIN study_codes THEN study_codes[modality] ELSE << >>

\* study_codes.get(modality, "MRI001^MRI BRAIN W/O CONTRAST")
StudyCode(modality) ==
    IF modality \in DOMAIN study_codes THEN study_codes[modality] ELSE MRI_CODE

\* patient_name.split(' ') if ' ' in patient_name else (patient_name, "Test")
NameParts(patient_name) ==
    IF Contains(patient_name, SP) THEN Split(patient_name, SP)
    ELSE << patient_name, TEST_NAME >>

\* last_name, first_name = ... : unpacking anything but two values raises ValueError
UnpackOk(patient_name) == Len(NameParts(patient_name)) = 2

\* the end block without its carriage return
WrapNoFinalCR(message) == << VT >> \o message \o << FS >>

\* f"\x0B{message}\x1C\x0D"
Wrap(message) == << VT >> \o message \o << FS, CR >>

\* The bytes create_hl7_message returns when the name unpacks: count is
\* message_count after the increment, now1 and now2 the two datetime.now()
\* readings, rnd the results of the two random.randint calls.
BuildMessage(count, patient_name, mrn, modality, now1, now2, rnd) ==
    LET mrn_used == IF mrn = NONE THEN MRN_PREFIX \o Digits(rnd.mrn) ELSE mrn
        message_id == MSG_PREFIX \o Format06d(count)
        timestamp == StrftimeSecond(now1)
        apt_timestamp == StrftimeMinute(now2 + APT_HOURS * 3600)
        last_name == NameParts(patient_name)[1]
        first_name == NameParts(patient_name)[2]
        study_code == StudyCode(modality)
        segments ==
            << MSH_HEAD \o timestamp \o MSH_MID \o message_id \o MSH_TAIL,
               SCH_HEAD \o Digits(rnd.sch) \o SCH_MID \o apt_timestamp \o SCH_TAIL,
               PID_HEAD \o mrn_used \o PID_MID \o last_name \o << CARET >>
                   \o first_name \o PID_TAIL,
               RGS_SEG,
               AIS_HEAD \o study_code \o << PIPE >> \o apt_timestamp,
               AIP_HEAD \o apt_timestamp >>
    IN  Utf8Encode(Wrap(Join(segments, CR)))

(***************************************************************************)
(* Reading a built message back, as an MLLP/HL7 receiver does.             *)
(***************************************************************************)
Payload(m) == SubSeq(m, 2, Len(m) - 2)

Segments(m) == Split(Payload(m), CR)

Fields(seg) == Split(seg, PIPE)

\* MSH-10, the message control ID
ControlId(m) == Fields(Segments(m)[1])[10]

(***************************************************************************)
(* Inputs.                                                                 *)
(***************************************************************************)
\* names = [...] of send_test_appointment
NamePool == {JOHN_DOE, JANE_SMITH, ROBERT_JOHNSON, MARY_WILLIAMS, DAVID_BROWN}

\* random.choice(["MRI", "CT", "XRAY", "US"])
ModalityPool == {K_MRI, K_CT, K_XRAY, K_US}

\* "Madonna": no space
MADONNA == << 77, 97, 100, 111, 110, 110, 97 >>

\* "Mary Ann Lee": two spaces
MARY_ANN_LEE == << 77, 97, 114, 121, 32, 65, 110, 110, 32, 76, 101, 101 >>

\* "Zoë Kim": a non-ASCII letter
ZOE_KIM == << 90, 111, 235, 32, 75, 105, 109 >>

\* "Ann\rLee": a carriage return and no space
ANN_CR_LEE == << 65, 110, 110, 13, 76, 101, 101 >>

\* "mri" and "PET": no key of study_codes
K_mri == << 109, 114, 105 >>

K_PET == << 80, 69, 84 >>

\* "M7" and "M7\rX"
MRN_M7 == << 77, 55 >>

MRN_CR == << 77, 55, 13, 88 >>

\* patient names, record numbers and modalities handed to the builder directly
PatientNames == {JANE_SMITH, MADONNA, MARY_ANN_LEE, ZOE_KIM, ANN_CR_LEE}

Mrns == {NONE, MRN_M7, MRN_CR}

Modalities == ModalityPool \cup {K_mri, K_PET}

\* what the environment hands one create_hl7_message call: the first
\* datetime.now() reading (2024-02-29 21:59:59, 2024-12-31 21:59:59) and the
\* results of random.randint(100000, 999999) and random.randint(1000, 9999)
EnvSamples ==
    {[now |-> 1709243999, mrn |-> 100000, sch |-> 1000],
     [now |-> 1735682399, mrn |-> 999999, sch |-> 9999]}

\* bytes the peer may answer with: "ACK", "A" + an invalid byte, "é"
Responses == {<< 65, 67, 75 >>, << 65, 255 >>, << 195, 169 >>}

\* exceptions of socket(), connect(), send() and recv()
TooManyFiles == "Too many open files"

ConnectErrors == {"Connection refused", "timed out"}

SendErrors == {"Broken pipe"}

RecvErrors == {"Connection reset by peer"}

\* sys.argv[1]; "random" is matched by no branch and falls to the else
ScenarioArgs == {"dramatic-save", "efficiency-boost", "load-test", "random"}

\* range(5) and range(100); every other branch sends once
EFFICIENCY_SENDS == 5

LOAD_TEST_SENDS == 100

Sends(s) ==
    IF s = "efficiency-boost" THEN EFFICIENCY_SENDS
    ELSE IF s = "load-test" THEN LOAD_TEST_SENDS
    ELSE 1

NoResult == [ok |-> FALSE, response |-> << >>, error |-> "no call"]

\* except ConnectionRefusedError as e: a handler that is too narrow
CaughtRefusedOnly(e) == e = "Connection refused"

\* except Exception as e: every error of the socket module is an Exception
Caught(e) == TRUE

(***************************************************************************)
(* State.                                                                  *)
(***************************************************************************)
sockVars == << sock, open_socks, peak_open, unsent, result >>

InitCommon ==
    /\ message_count = 0
    /\ msg = << >>
    /\ raised = "none"
    /\ arg_name = << >>
    /\ arg_mrn = << >>
    /\ arg_modality = << >>
    /\ t_created = 0
    /\ calls = 0
    /\ issued = {}
    /\ produced = 0
    /\ caller = "none"
    /\ scenario = "none"
    /\ i = 0
    /\ attempts = 0
    /\ sock = "none"
    /\ open_socks = 0
    /\ peak_open = 0
    /\ unsent = << >>
    /\ result = NoResult

\* a client holding one HL7Simulator() and calling its methods
Init == InitCommon /\ pc = "idle" /\ outer = "idle"

\* the script run from the command line, before main()
InitMain == InitCommon /\ pc = "start" /\ outer = "exit"

(***************************************************************************)
(* Operations.                                                             *)
(***************************************************************************)
\* one execution of create_hl7_message; a call that raises returns nothing,
\* and of its arguments only the name stays in view
Create(patient_name, mrn, modality, now1, now2, rnd) ==
    /\ message_count' = NextCount(message_count)
    /\ calls' = calls + 1
    /\ arg_name' = patient_name
    /\ IF UnpackOk(patient_name)
       THEN /\ msg' = BuildMessage(message_count', patient_name, mrn, modality,
                                   now1, now2, rnd)
            /\ raised' = "none"
            /\ arg_mrn' = mrn
            /\ arg_modality' = modality
            /\ t_created' = now1
            /\ issued' = issued \cup {ControlId(msg')}
            /\ produced' = produced + 1
       ELSE /\ msg' = << >>
            /\ raised' = "ValueError"
            /\ arg_mrn' = << >>
            /\ arg_modality' = << >>
            /\ t_created' = 0
            /\ UNCHANGED << issued, produced >>

\* a client calls create_hl7_message and keeps the bytes it returns
CreateHl7MessageCall ==
    /\ pc = "idle"
    /\ calls < MaxCalls
    /\ \E patient_name \in PatientNames, mrn \in Mrns, modality \in Modalities,
          env \in EnvSamples, adv \in 0..MaxAdvance :
            Create(patient_name, mrn, modality, env.now, env.now + adv, env)
    /\ pc' = IF raised' = "none" THEN "built" ELSE "idle"
    /\ UNCHANGED << caller, scenario, i, attempts, outer, sockVars >>

\* the client lets the bytes go without sending them
DropMessage ==
    /\ pc = "built"
    /\ pc' = "idle"
    /\ msg' = << >>
    /\ arg_name' = << >>
    /\ arg_mrn' = << >>
    /\ arg_modality' = << >>
    /\ t_created' = 0
    /\ UNCHANGED << message_count, raised, calls, issued, produced, caller,
                    scenario, i, attempts, outer, sockVars >>

\* the client calls send_message(msg)
SendMessageCall ==
    /\ pc = "built"
    /\ pc' = "sending"
    /\ caller' = "direct"
    /\ UNCHANGED << message_count, msg, raised, arg_name, arg_mrn, arg_modality,
                    t_created, calls, issued, produced, scenario, i, attempts,
                    outer, sockVars >>

\* send_test_appointment(patient_name, modality) up to its call of send_message;
\* who is "sta" for a call from the client or main, "scen" for one from
\* run_demo_scenario.  An exception of the builder is handled nowhere.
Sta(patient_name, modality, who) ==
    /\ \E pn \in (IF patient_name = NONE THEN NamePool ELSE {patient_name}),
          md \in (IF modality = NONE THEN ModalityPool ELSE {modality}),
          env \in EnvSamples, adv \in 0..MaxAdvance :
            Create(pn, NONE, md, env.now, env.now + adv, env)
    /\ IF raised' = "none"
       THEN /\ pc' = "sending"
            /\ caller' = who
            /\ attempts' = IF who = "scen" THEN attempts + 1 ELSE attempts
       ELSE /\ pc' = outer
            /\ UNCHANGED << caller, attempts >>
    /\ UNCHANGED << outer, sockVars >>

\* the client calls send_test_appointment
SendTestAppointmentCall ==
    /\ pc = "idle"
    /\ calls < MaxCalls
    /\ \E patient_name \in {NONE, MARY_ANN_LEE}, modality \in {NONE, K_PET} :
            Sta(patient_name, modality, "sta")
    /\ UNCHANGED << scenario, i >>

\* the client calls run_demo_scenario(s)
RunDemoScenarioCall ==
    /\ pc = "idle"
    /\ \E s \in ScenarioArgs :
        /\ calls + Sends(s) <= MaxCalls
        /\ scenario' = s
    /\ i' = 0
    /\ attempts' = 0
    /\ pc' = "scen"
    /\ raised' = "none"
    /\ arg_name' = << >>
    /\ arg_mrn' = << >>
    /\ arg_modality' = << >>
    /\ t_created' = 0
    /\ UNCHANGED << message_count, msg, calls, issued, produced, caller, outer,
                    sockVars >>

\* main(): with an argument run_demo_scenario(argv[1]), without one
\* send_test_appointment()
Main ==
    /\ pc = "start"
    /\ \E argv \in {"<none>"} \cup ScenarioArgs :
        IF argv = "<none>"
        THEN Sta(NONE, NONE, "sta") /\ UNCHANGED << scenario, i >>
        ELSE /\ scenario' = argv
             /\ i' = 0
             /\ attempts' = 0
             /\ pc' = "scen"
             /\ UNCHANGED << message_count, msg, raised, arg_name, arg_mrn,
                             arg_modality, t_created, calls, issued, produced,
                             caller, outer, sockVars >>

\* one pass of the scenario's loop (the single call of the branches without one)
ScenarioSend ==
    /\ pc = "scen"
    /\ i < Sends(scenario)
    /\ IF scenario = "dramatic-save"
       THEN Sta(JOHN_DOE, K_MRI, "scen")
       ELSE Sta(NONE, NONE, "scen")
    /\ UNCHANGED << scenario, i >>

\* the loop is exhausted: run_demo_scenario returns
ScenarioReturn ==
    /\ pc = "scen"
    /\ i >= Sends(scenario)
    /\ pc' = outer
    /\ UNCHANGED << message_count, msg, raised, arg_name, arg_mrn, arg_modality,
                    t_created, calls, issued, produced, caller, scenario, i,
                    attempts, outer, sockVars >>

(***************************************************************************)
(* send_message.                                                           *)
(***************************************************************************)
\* the handler returning (True, str(e))
RaiseReportsSuccess(e, left) ==
    /\ open_socks' = left
    /\ result' = [ok |-> TRUE, response |-> << >>, error |-> e]
    /\ pc' = "ret"
    /\ raised' = raised

\* An exception e raised inside the try block: sock.close() is skipped and
\* the handler returns (False, str(e)).  left is the number of descriptors
\* open afterwards: the abandoned socket is closed only by its finalizer,
\* when send_message returns or at a later collection.
Raise(e, left) ==
    /\ open_socks' = left
    /\ IF Caught(e)
       THEN /\ result' = [ok |-> FALSE, response |-> << >>, error |-> e]
            /\ pc' = "ret"
            /\ raised' = raised
       ELSE /\ result' = NoResult
            /\ pc' = outer
            /\ raised' = e

\* send_message(msg) up to its blocking read: socket(), connect() and
\* send(), which returns the number of bytes it wrote; the code drops it
Transmit ==
    /\ pc = "sending"
    /\ \/ /\ open_socks >= MaxOpen
          /\ sock' = "no socket"
          /\ peak_open' = open_socks
          /\ unsent' = << >>
          /\ Raise(TooManyFiles, open_socks)
       \/ /\ open_socks < MaxOpen
          /\ peak_open' = open_socks + 1
          /\ \/ /\ sock' = "connect failed"
                /\ unsent' = << >>
                /\ \E e \in ConnectErrors, fin \in BOOLEAN :
                      Raise(e, IF fin THEN open_socks ELSE open_socks + 1)
             \/ /\ sock' = "send failed"
                /\ unsent' = << >>
                /\ \E e \in SendErrors, fin \in BOOLEAN :
                      Raise(e, IF fin THEN open_socks ELSE open_socks + 1)
             \/ /\ sock' = "sent"
                /\ \E k \in 0..MaxUnsent :
                      /\ k < Len(msg)
                      /\ unsent' = SubSeq(msg, Len(msg) - k + 1, Len(msg))
                /\ open_socks' = open_socks + 1
                /\ pc' = "recv"
                /\ UNCHANGED << result, raised >>
    /\ msg' = << >>
    /\ arg_name' = << >>
    /\ arg_mrn' = << >>
    /\ arg_modality' = << >>
    /\ t_created' = 0
    /\ UNCHANGED << message_count, calls, issued, produced, caller, scenario, i,
                    attempts, outer >>

\* the rest of send_message: recv(1024), close(), return
AwaitAck ==
    /\ pc = "recv"
    /\ \/ /\ sock' = "recv failed"
          /\ \E e \in RecvErrors, fin \in BOOLEAN :
                Raise(e, IF fin THEN open_socks - 1 ELSE open_socks)
       \/ /\ sock' = "closed"
          /\ \E response \in Responses :
                result' = [ok |-> TRUE, response |-> Utf8DecodeIgnore(response),
                           error |-> ""]
          /\ open_socks' = open_socks - 1
          /\ pc' = "ret"
          /\ UNCHANGED raised
    /\ UNCHANGED << message_count, msg, arg_name, arg_mrn, arg_modality,
                    t_created, calls, issued, produced, caller, scenario, i,
                    attempts, outer, peak_open, unsent >>

\* send_message has returned: send_test_appointment prints the outcome and
\* returns, and the loop of run_demo_scenario moves on
Return ==
    /\ pc = "ret"
    /\ pc' = IF caller = "scen" THEN "scen" ELSE outer
    /\ i' = IF caller = "scen" THEN i + 1 ELSE i
    /\ sock' = "none"
    /\ peak_open' = 0
    /\ unsent' = << >>
    /\ result' = NoResult
    /\ caller' = "none"
    /\ UNCHANGED << message_count, msg, raised, arg_name, arg_mrn, arg_modality,
                    t_created, calls, issued, produced, scenario, attempts,
                    outer, open_socks >>

\* the finalizer of a socket abandoned by an earlier send_message runs
Finalize ==
    /\ open_socks > (IF pc = "recv" THEN 1 ELSE 0)
    /\ open_socks' = open_socks - 1
    /\ UNCHANGED << message_count, msg, raised, arg_name, arg_mrn, arg_modality,
                    t_created, calls, issued, produced, pc, caller, scenario, i,
                    attempts, outer, sock, peak_open, unsent, result >>

(***************************************************************************)
(* Specifications.                                                         *)
(***************************************************************************)
\* a client calling the methods of one simulator in any order
Next ==
    \/ CreateHl7MessageCall
    \/ DropMessage
    \/ SendMessageCall
    \/ SendTestAppointmentCall
    \/ RunDemoScenarioCall
    \/ ScenarioSend
    \/ ScenarioReturn
    \/ Transmit
    \/ AwaitAck
    \/ Return
    \/ Finalize

Spec == Init /\ [][Next]_vars

\* one run of the script
NextMain ==
    \/ Main
    \/ ScenarioSend
    \/ ScenarioReturn
    \/ Transmit
    \/ AwaitAck
    \/ Return
    \/ Finalize

SpecMain == InitMain /\ [][NextMain]_vars

(***************************************************************************)
(* Reading fields of a built message.                                      *)
(***************************************************************************)
\* p occurs in s
IsInfix(p, s) ==
    \E k \in 0..(Len(s) - Len(p)) : SubSeq(s, k + 1, k + Len(p)) = p

\* occurrences of c in s
Count(s, c) == Cardinality({k \in 1..Len(s) : s[k] = c})

IsDigits(s) == \A k \in 1..Len(s) : s[k] >= ZERO /\ s[k] <= ZERO + 9

RECURSIVE ParseDecimal(_)
ParseDecimal(s) ==
    IF s = << >> THEN 0
    ELSE 10 * ParseDecimal(SubSeq(s, 1, Len(s) - 1)) + (s[Len(s)] - ZERO)

\* m starts with 0x0B alone and ends with 0x1C 0x0D
Framed(m) ==
    /\ Len(m) >= 4
    /\ m[1] = 11
    /\ m[2] # 11
    /\ m[Len(m) - 1] = 28
    /\ m[Len(m)] = 13

\* field n of a segment, empty when the segment has fewer
Field(seg, n) == IF Len(Fields(seg)) >= n THEN Fields(seg)[n] ELSE << >>

\* the three-letter segment IDs, in order
SegmentIds(m) == [k \in 1..Len(Segments(m)) |-> SubSeq(Segments(m)[k], 1, 3)]

\* the segments no argument reaches into: SCH is the second, AIS and AIP the last two
SchSegment(m) == Segments(m)[2]

AisSegment(m) == Segments(m)[Len(Segments(m)) - 1]

AipSegment(m) == Segments(m)[Len(Segments(m))]

PidSegment(m) == Segments(m)[3]

\* the appointment timestamp as each segment carries it
SchAppointment(m) == Split(Field(SchSegment(m), 12), CARET)[4]

AisAppointment(m) == Field(AisSegment(m), 5)

AipAppointment(m) == Field(AipSegment(m), 5)

\* AIS-3 and its description: the study code
AisStudyCode(m) == Field(AisSegment(m), 4)

\* PID-5, the patient name, read from the start of PID to the next field
\* separator (a carriage return inside a field does not end the field here)
PidName(m) == Field(Join(SubSeq(Segments(m), 3, Len(Segments(m))), CR), 6)

\* the text before and after the first space of a name that has one
BeforeFirstSpace(s) ==
    LET k == CHOOSE k \in 1..Len(s) : s[k] = SP /\ \A j \in 1..(k - 1) : s[j] # SP
    IN  SubSeq(s, 1, k - 1)

AfterFirstSpace(s) ==
    LET k == CHOOSE k \in 1..Len(s) : s[k] = SP /\ \A j \in 1..(k - 1) : s[j] # SP
    IN  SubSeq(s, k + 1, Len(s))

(***************************************************************************)
(* Claims.                                                                 *)
(***************************************************************************)
\* C1: the k-th create_hl7_message call of a process yields the control ID
\* "MSG" followed by k zero-padded to six digits; the counter equals the
\* number of calls made (it starts at 0, gains one per call, and no other
\* operation changes it), and no two returned messages share a control ID.
C1_ControlIdIsCallNumber ==
    /\ message_count = calls
    /\ Cardinality(issued) = produced
    /\ msg # << >> =>
        LET id == ControlId(msg)
        IN  /\ Len(id) = 9
            /\ SubSeq(id, 1, 3) = << 77, 83, 71 >>
            /\ IsDigits(SubSeq(id, 4, 9))
            /\ ParseDecimal(SubSeq(id, 4, 9)) = calls
            /\ id \in issued

\* C1 witness: the hundredth message of a load test carries MSG000100
C1_Witness ==
    /\ calls = 100
    /\ produced = 100
    /\ msg # << >>
    /\ ControlId(msg) = << 77, 83, 71, 48, 48, 48, 49, 48, 48 >>

\* C2: the builder called with ("Jane Smith", None, "CT") yields a PID segment
\* containing Smith^Jane and an AIS segment containing CT002^CT CHEST W CONTRAST.
C2_JaneSmithExample ==
    (msg # << >> /\ arg_name = JANE_SMITH /\ arg_mrn = NONE /\ arg_modality = K_CT)
        => /\ IsInfix(<< 83, 109, 105, 116, 104, 94, 74, 97, 110, 101 >>,
                      PidSegment(msg))
           /\ IsInfix(CT_CODE, AisSegment(msg))

\* C3: for every patient name with at least one space the builder returns a
\* message without raising, and PID-5 is the text before the first space, a
\* caret, and the text after it.
C3_SpacedNameAccepted ==
    Contains(arg_name, SP)
        => /\ raised = "none"
           /\ msg # << >>
           /\ PidName(msg) = Utf8Encode(BeforeFirstSpace(arg_name) \o << CARET >>
                                            \o AfterFirstSpace(arg_name))

\* C4: the appointment timestamps of SCH, AIS and AIP are one value, and that
\* value is the creation instant of the MSH timestamp plus exactly 120
\* minutes, to the minute, however the clock advances during the call.
C4_AppointmentIsCreationPlus120 ==
    msg # << >>
        => /\ SchAppointment(msg) = AisAppointment(msg)
           /\ AipAppointment(msg) = AisAppointment(msg)
           /\ AisAppointment(msg) = StrftimeMinute(t_created + 120 * 60)

\* C5: whenever send_message returns, by success or by a failure of connect,
\* write or read, the socket it opened is closed, and at most one connection
\* is ever open.
C5_SocketClosedOnEveryReturn ==
    /\ pc = "ret" => open_socks = 0
    /\ open_socks <= 1
    /\ peak_open <= 1

\* C6: a failure of socket, connect, write or read inside send_message is
\* returned as (False, description) and never propagates; (True, response)
\* is returned only when connect, write and read all succeeded.
C6_FailuresAreReturned ==
    /\ raised \in {"none", "ValueError"}
    /\ sock \in {"no socket", "connect failed", "send failed", "recv failed", "closed"}
        => pc = "ret"
    /\ pc = "ret" =>
        /\ result.ok <=> sock = "closed"
        /\ ~result.ok =>
            /\ result.response = << >>
            /\ result.error \in {TooManyFiles} \cup ConnectErrors
                                    \cup SendErrors \cup RecvErrors
            /\ sock = "connect failed" => result.error \in ConnectErrors
        /\ result.ok => result.error = ""

\* C6 witness: a refused connection came back as (False, "Connection refused")
C6_Witness ==
    /\ pc = "ret"
    /\ sock = "connect failed"
    /\ ~result.ok
    /\ result.error = "Connection refused"
    /\ raised = "none"

\* C7: a load-test run makes exactly 100 send attempts and an
\* efficiency-boost run exactly 5, whatever mix of sends succeeds or fails:
\* a failure neither ends the loop nor is retried, and the run ends after
\* the last attempt.
C7_ScenarioSendCounts ==
    /\ scenario = "load-test" => attempts <= 100
    /\ scenario = "efficiency-boost" => attempts <= 5
    /\ pc = "scen" => attempts = i
    /\ pc = "exit" =>
        /\ scenario = "load-test" => attempts = 100
        /\ scenario = "efficiency-boost" => attempts = 5
        /\ raised = "none"

\* C7 witness: a load test ended after 100 attempts, failed sends among
\* them (their abandoned sockets are still open)
C7_Witness ==
    /\ pc = "exit"
    /\ scenario = "load-test"
    /\ attempts = 100
    /\ open_socks > 0

\* C8: whenever send_message reports success the whole framed message was
\* written: no suffix of it is left unsent, whatever the socket write accepted.
C8_SuccessMeansAllWritten ==
    (pc = "ret" /\ result.ok) => unsent = << >>

\* C9: every returned message begins with the single byte 0x0B, ends with
\* 0x1C 0x0D, and holds between them exactly the six segments MSH, SCH, PID,
\* RGS, AIS, AIP separated by 0x0D, for every name, record number and modality.
C9_AlwaysSixSegments ==
    msg # << >>
        => /\ Framed(msg)
           /\ SegmentIds(msg) = << << 77, 83, 72 >>, << 83, 67, 72 >>,
                                   << 80, 73, 68 >>, << 82, 71, 83 >>,
                                   << 65, 73, 83 >>, << 65, 73, 80 >> >>

\* C9 as amended: every returned message begins with the single byte 0x0B
\* and ends with 0x1C 0x0D; between them lie exactly the six segments MSH,
\* SCH, PID, RGS, AIS, AIP in order when neither the patient name nor the
\* record number contains 0x0D, and one more 0x0D-separated piece for each
\* 0x0D they contain.
C9_FramedSixSegmentsUnlessCR ==
    msg # << >>
        => /\ Framed(msg)
           /\ Len(Segments(msg)) = 6 + Count(arg_name, CR) + Count(arg_mrn, CR)
           /\ (Count(arg_name, CR) + Count(arg_mrn, CR) = 0)
                => SegmentIds(msg) = << << 77, 83, 72 >>, << 83, 67, 72 >>,
                                        << 80, 73, 68 >>, << 82, 71, 83 >>,
                                        << 65, 73, 83 >>, << 65, 73, 80 >> >>

\* C9 witness: a message with a non-ASCII name, a given record number and
\* no carriage return in either, in six segments
C9_Witness ==
    /\ msg # << >>
    /\ arg_name = ZOE_KIM
    /\ arg_mrn = MRN_M7
    /\ Framed(msg)
    /\ Len(Segments(msg)) = 6

\* C10: a modality that is not exactly MRI, CT, XRAY or US gets the MRI study
\* code MRI001^MRI BRAIN W/O CONTRAST; each of the four gets its own entry.
C10_StudyCodeByModality ==
    msg # << >>
        => AisStudyCode(msg) =
              (IF arg_modality = K_CT THEN CT_CODE
               ELSE IF arg_modality = K_XRAY THEN XRAY_CODE
               ELSE IF arg_modality = K_US THEN US_CODE
               ELSE MRI_CODE)

\* C10 witness: the lower-case modality "mri" fell back to the MRI entry
C10_Witness ==
    /\ msg # << >>
    /\ arg_modality = K_mri
    /\ AisStudyCode(msg) = MRI_CODE

====
